---- MODULE Spec2Model ----
(***************************************************************************)
(* rs-licer: an STL mesh is cut into a stack of binary bitmaps.            *)
(*                                                                         *)
(* slice_with_progress (src/src/lib.rs) runs in two fork-join phases: the  *)
(* column phase computes, for every pixel column, the z-intervals in which *)
(* the column is inside the solid; the layer phase renders one bitmap per  *)
(* layer from those intervals and saves it under its z label.  The GUI     *)
(* (src/src/gui_iced.rs) starts the run on a worker thread and polls a     *)
(* progress channel on every Tick.                                         *)
(*                                                                         *)
(* Lengths are integers counting 1e-4 mm (0.1 micrometre), so the slab     *)
(* epsilon of the rasterizer is exactly one unit and a layer height below  *)
(* one micrometre is representable.  Arithmetic is exact: the rounding of  *)
(* f32 operations is not modelled.                                         *)
(***************************************************************************)
EXTENDS Integers, Sequences, FiniteSets, TLC

\* ------------------------------------------------------------------------
\* Units and program constants
\* ------------------------------------------------------------------------

\* length units per micrometre (the unit is 1e-4 mm)
UnitsPerMicron == 10

\* let epsilon = 1e-4 (mm) of the slab test, in length units
Epsilon == 1

\* completed % 5 == 0
ProgressEvery == 5

\* image::Luma([255]) and image::Luma([0])
White == 255
Black == 0

\* let epsilon = 1e-6 of Triangle::intersect against the determinant a, a
\* product of two lengths in mm: 1e-6 mm^2 in square length units
ParallelEpsilon == 100

\* the same epsilon against the distance t: 1e-6 mm is one part in
\* HitEpsilonInv of a length unit
HitEpsilonInv == 100

\* min_bound.z - 1.0: the ray starts 1 mm below the mesh, in length units
RayOffset == 10000

\* let mut pixel_size_um = 33.3333, in length units (33.3 micrometres)
DefaultPixelSize == 333

\* let mut layer_height_um = 20.0, in length units
DefaultLayerHeight == 200

\* ------------------------------------------------------------------------
\* Bounds of the model
\* ------------------------------------------------------------------------

\* runs of the slicer in one behaviour (a rerun starts when the last is done)
MaxRuns == 2

\* layers of a run, for the meshes and layer heights drawn from small ranges
MaxLayers == 6

\* crossings found on the ray of the probed column
MaxHits == 4

\* height of the probed solid, in length units
ZTop == 3

\* arguments on the command line, after the program name
MaxArgs == 4

\* ------------------------------------------------------------------------
\* Arithmetic helpers
\* ------------------------------------------------------------------------

\* (a / b).ceil() as u32 for b > 0; a negative quotient saturates to 0
CeilDiv(a, b) == IF a <= 0 THEN 0 ELSE (a + b - 1) \div b

\* f32::round of n / d for d > 0: nearest integer, halves away from zero
Round(n, d) ==
    IF n >= 0 THEN (2 * n + d) \div (2 * d)
              ELSE -((2 * (-n) + d) \div (2 * d))

\* ------------------------------------------------------------------------
\* Triangle::intersect (Moller-Trumbore), in exact arithmetic
\* ------------------------------------------------------------------------

\* Vec3 as <<x, y, z>>
Sub(a, b) == <<a[1] - b[1], a[2] - b[2], a[3] - b[3]>>

Dot(a, b) == a[1] * b[1] + a[2] * b[2] + a[3] * b[3]

Cross(a, b) ==
    <<a[2] * b[3] - a[3] * b[2], a[3] * b[1] - a[1] * b[3],
      a[1] * b[2] - a[2] * b[1]>>

Triangle(v0, v1, v2) == [v0 |-> v0, v1 |-> v1, v2 |-> v2]

Ray(origin, direction) == [origin |-> origin, direction |-> direction]

\* Some(t) as <<t>>, None as <<>>. f = 1 / a is not formed: with sg the sign
\* of a, u = un / an, v = vn / an and t = tn / an for an = |a|, and every
\* comparison of the code is made on the numerators. The bounds of u and v
\* are inclusive, so a point on an edge or a vertex is in the triangle
Intersect(tri, ray) ==
    LET edge1 == Sub(tri.v1, tri.v0)
        edge2 == Sub(tri.v2, tri.v0)
        h == Cross(ray.direction, edge2)
        a == Dot(edge1, h)
        s == Sub(ray.origin, tri.v0)
        q == Cross(s, edge1)
        sg == IF a > 0 THEN 1 ELSE -1
        an == sg * a
        un == sg * Dot(s, h)
        vn == sg * Dot(ray.direction, q)
        tn == sg * Dot(edge2, q)
    IN  IF a > -ParallelEpsilon /\ a < ParallelEpsilon THEN <<>>
        ELSE IF un < 0 \/ un > an THEN <<>>
        ELSE IF vn < 0 \/ un + vn > an THEN <<>>
        ELSE IF tn * HitEpsilonInv > an THEN <<tn \div an>>
        ELSE <<>>

RECURSIVE Hits(_, _)
\* the loop over hit_shapes: z = origin.z + dist * direction.z of every
\* triangle the ray intersects, in the order the triangles come (the BVH
\* only leaves out triangles whose box the ray misses)
Hits(triangles, ray) ==
    IF triangles = <<>> THEN <<>>
    ELSE LET dist == Intersect(Head(triangles), ray) IN
        (IF dist = <<>> THEN <<>>
         ELSE <<ray.origin[3] + dist[1] * ray.direction[3]>>)
        \o Hits(Tail(triangles), ray)

\* the ray of pixel (x, y): from the pixel centre, 1 mm below the mesh,
\* upwards (pixel sizes are even here, so the centre is a whole number)
ColumnRay(x, y, min_bound, px) ==
    Ray(<<min_bound[1] + ((2 * x + 1) * px) \div 2,
          min_bound[2] + ((2 * y + 1) * px) \div 2,
          min_bound[3] - RayOffset>>,
        <<0, 0, 1>>)

\* ------------------------------------------------------------------------
\* Column span engine: sort the crossings, pair them greedily
\* ------------------------------------------------------------------------

RECURSIVE Insert(_, _)
\* insert v into the ascending sequence s, after the elements equal to it
Insert(s, v) ==
    IF s = <<>> THEN <<v>>
    ELSE IF v < Head(s) THEN <<v>> \o s
    ELSE <<Head(s)>> \o Insert(Tail(s), v)

\* the crossings left in the order the BVH yielded them
Unsorted(hits) == hits

RECURSIVE SortHits(_)
\* hits.sort_by(|a, b| a.partial_cmp(b).unwrap())
SortHits(hits) ==
    IF hits = <<>> THEN <<>>
    ELSE Insert(SortHits(SubSeq(hits, 1, Len(hits) - 1)), hits[Len(hits)])

\* every crossing paired with its successor, as without step_by(2)
PairSliding(sorted) ==
    [k \in 1..(IF Len(sorted) = 0 THEN 0 ELSE Len(sorted) - 1) |->
        [enter |-> sorted[k], exit |-> sorted[k + 1]]]

\* for i in (0..hits.len()).step_by(2) { if i + 1 < hits.len() { push((hits[i], hits[i+1])) } }
\* (sequences are 1-based here: the pair k is (sorted[2k-1], sorted[2k]))
PairSpans(sorted) ==
    [k \in 1..(Len(sorted) \div 2) |->
        [enter |-> sorted[2 * k - 1], exit |-> sorted[2 * k]]]

\* the closure body of the column pass, from the crossings found on the ray
PixelSpans(hits) == PairSpans(SortHits(hits))

\* ------------------------------------------------------------------------
\* Layer rasterizer
\* ------------------------------------------------------------------------

\* z >= *enter - epsilon && z <= *exit + epsilon
InSlab(z, span) == z >= span.enter - Epsilon /\ z <= span.exit + Epsilon

\* the loop over pixel_spans that sets `inside`
Inside(z, pixel_spans) ==
    \E k \in 1..Len(pixel_spans) : InSlab(z, pixel_spans[k])

\* idx = (y * width_px + x) as usize
CellIndex(x, y, w) == y * w + x

\* the grid row used as the image row
ImageRowUnflipped(y, h) == y

\* the image row that put_pixel is given for grid row y
ImageRow(y, h) == h - 1 - y

\* GrayImage::new(width_px, height_px): every pixel 0, nothing put yet
NewImage(w, h) ==
    [pix  |-> [p \in (0..(w - 1)) \X (0..(h - 1)) |-> Black],
     puts |-> [p \in (0..(w - 1)) \X (0..(h - 1)) |-> 0]]

\* img.put_pixel(x, row, v); puts counts the calls per pixel
PutPixel(img, x, row, v) ==
    [pix  |-> [img.pix  EXCEPT ![<<x, row>>] = v],
     puts |-> [img.puts EXCEPT ![<<x, row>>] = @ + 1]]

RECURSIVE RenderFrom(_, _, _, _, _, _)
\* the nested loops for y, for x of the layer closure, run from step n of
\* w * h (step n visits y = n div w, x = n mod w)
RenderFrom(img, n, z, grid, w, h) ==
    IF n >= w * h THEN img
    ELSE LET y == n \div w
             x == n % w
             pixel_spans == grid[CellIndex(x, y, w)]
             v == IF Inside(z, pixel_spans) THEN White ELSE Black
         IN  RenderFrom(PutPixel(img, x, ImageRow(y, h), v), n + 1, z, grid, w, h)

\* the bitmap of one layer
RenderLayer(z, grid, w, h) == RenderFrom(NewImage(w, h), 0, z, grid, w, h)

\* ------------------------------------------------------------------------
\* State
\* ------------------------------------------------------------------------

VARIABLES
    config,            \* SlicerConfig handed to slice_with_progress
    mesh,              \* the loaded mesh: its bounds and the crossings on each ray
    env,               \* the caller and the I/O conditions of the run
    pc,                \* position of slice_with_progress
    run,               \* number of the run (1 for the first)
    col_pc,            \* per span-grid cell: position of its column task
    spans,             \* the span grid (Vec<Vec<(f32, f32)>>)
    span_writes,       \* per span-grid cell: how many tasks have written it
    layer_pc,          \* per layer index: position of its layer task
    layer_out,         \* per emitted layer: its bitmap and the z label it saved under
    completed_layers,  \* AtomicU32 completed_layers
    out_dir,           \* the output directory: whether it exists, and its files
    prev_files,        \* the files in the directory when the run started
    chan,              \* progress events in flight to the receiver
    rx,                \* the Receiver: "none", "alive" or "dropped"
    sent,              \* every progress event handed to tx.send, in order
    is_processing,     \* SlicerApp.is_processing
    progress_rx,       \* SlicerApp.progress_rx is Some
    args,              \* env::args() after the program name
    exit_code          \* the exit status of the process: <<>> until it exits

vars == <<config, mesh, env, pc, run, col_pc, spans, span_writes, layer_pc,
          layer_out, completed_layers, out_dir, prev_files, chan, rx, sent,
          is_processing, progress_rx, args, exit_code>>

\* ------------------------------------------------------------------------
\* Derived run parameters (immutable let-bindings of slice_with_progress)
\* ------------------------------------------------------------------------

\* let pixel_size_mm = config.pixel_size_um / 1000.0
pixel_size_mm == config.pixel_size

\* let layer_height_mm = config.layer_height_um / 1000.0
layer_height_mm == config.layer_height

\* let width_px = (width_mm / pixel_size_mm).ceil() as u32
width_px == CeilDiv(mesh.size_x, pixel_size_mm)

\* let height_px = (height_mm / pixel_size_mm).ceil() as u32
height_px == CeilDiv(mesh.size_y, pixel_size_mm)

\* indices of the flattened span grid
Cells == 0..(width_px * height_px - 1)

\* let start_z = min_bound.z
start_z == mesh.min_z

\* let end_z = max_bound.z
end_z == mesh.max_z

\* let num_layers = ((end_z - start_z) / layer_height_mm).ceil() as u32
NumLayersOf(m, c) == CeilDiv(m.max_z - m.min_z, c.layer_height)

num_layers == NumLayersOf(mesh, config)

Layers == 0..(num_layers - 1)

\* let z = start_z + i as f32 * layer_height_mm
LayerZ(i) == start_z + i * layer_height_mm

\* the layer at z = 0 skipped as well
SkippedAtZero(i) == config.delete_below_zero /\ LayerZ(i) <= 0

\* if config.delete_below_zero && z < 0.0 { return; }
Skipped(i) == config.delete_below_zero /\ LayerZ(i) < 0

\* the label taken from the world z although zero_slice_position is set
ZeroedFromWorld(i) == Round(LayerZ(i), UnitsPerMicron)

\* (i as f32 * config.layer_height_um).round() as i32
ZeroedLabel(i) == Round(i * config.layer_height, UnitsPerMicron)

\* (z * 1000.0).round() as i32
WorldLabel(i) == Round(LayerZ(i), UnitsPerMicron)

\* let z_microns = if config.zero_slice_position { ... } else { ... }
ZMicrons(i) == IF config.zero_slice_position THEN ZeroedLabel(i) ELSE WorldLabel(i)

\* ------------------------------------------------------------------------
\* Progress channel
\* ------------------------------------------------------------------------

\* a (f32, String) progress event; the fraction is num / den, and the
\* "Processing layer {} of {}" events carry the completed count
Event(num, den, message, completed) ==
    [num |-> num, den |-> den, message |-> message, completed |-> completed]

\* progress_tx is Some: main calls slice (None), the GUI passes Some(tx)
HasTx == env.consumer # "none"

\* the Result of tx.send unwrapped instead of discarded
SendErrorUnwrapped == FALSE

\* `let _ = tx.send(..)`: the Err of a send to a dropped receiver is discarded
SendErrorIgnored == TRUE

\* whether a send at this point would unwind the sender
SendPanics == HasTx /\ rx # "alive" /\ ~SendErrorIgnored

\* tx.send(ev): Ok and the event is queued when the receiver is alive, Err
\* otherwise; sent keeps the event and whether the send was Ok
SendProgress(ev) ==
    IF HasTx
    THEN /\ sent' = Append(sent, [event |-> ev, ok |-> rx = "alive"])
         /\ chan' = IF rx = "alive" THEN Append(chan, ev) ELSE chan
    ELSE UNCHANGED <<sent, chan>>

\* 0.5 + (completed as f32 / num_layers as f32) * 0.5, as a fraction
LayerEvent(completed) ==
    Event(num_layers + completed, 2 * num_layers, "Processing layer", completed)

\* if completed % 5 == 0 || completed == num_layers
ReportsProgress(completed) ==
    completed % ProgressEvery = 0 \/ completed = num_layers

\* progress >= 1.0
AtLeastOne(ev) == ev.num >= ev.den

\* ------------------------------------------------------------------------
\* Output directory
\* ------------------------------------------------------------------------

NoFiles == [l \in {} |-> 0]

\* img.save(format!("{}/{}.png", config.output_dir, z_microns))
SaveFile(files, label, pix) ==
    [l \in (DOMAIN files) \cup {label} |-> IF l = label THEN pix ELSE files[l]]

\* if config.delete_output_dir && Path::new(&config.output_dir).exists() {
\*     fs::remove_dir_all(..) }  fs::create_dir_all(..)
PreparedDir(dir) ==
    IF config.delete_output_dir /\ dir.exists
    THEN [exists |-> TRUE, files |-> NoFiles]
    ELSE [exists |-> TRUE, files |-> dir.files]

\* ------------------------------------------------------------------------
\* main: the command line
\* ------------------------------------------------------------------------

SlicerConfig(px, lh, zsp, dbz, dod) ==
    [pixel_size |-> px, layer_height |-> lh, zero_slice_position |-> zsp,
     delete_below_zero |-> dbz, delete_output_dir |-> dod]

\* one command-line argument: its text, whether it starts with '-', whether
\* str::parse::<f32> accepts it, and the length it then stands for
Arg(text, dash, number, val) ==
    [text |-> text, dash |-> dash, number |-> number, val |-> val]

Opt(text) == Arg(text, TRUE, FALSE, 0)

Word(text) == Arg(text, FALSE, FALSE, 0)

Num(v) == Arg("number", FALSE, TRUE, v)

\* the locals of main before the argument loop
Locals ==
    [input_path |-> "", output_dir |-> "",
     pixel_size_um |-> DefaultPixelSize, layer_height_um |-> DefaultLayerHeight,
     zero_slice_position |-> FALSE, delete_below_zero |-> TRUE,
     delete_output_dir |-> TRUE, open_output_dir |-> FALSE, error |-> ""]

\* the positional arm of the match: input path, then output directory, then
\* nothing more
Positional(st, arg) ==
    IF st.input_path = "" THEN [st EXCEPT !.input_path = arg.text]
    ELSE IF st.output_dir = "" THEN [st EXCEPT !.output_dir = arg.text]
    ELSE [st EXCEPT !.error = "Unexpected argument"]

\* the loop `while i < args.len()` from index i on; args[0], the program
\* name, is not part of argv here, so args.len() is Len(argv) + 1 and the
\* indices agree. error is the message printed before std::process::exit(1)
RECURSIVE ParseArgs(_, _, _)
ParseArgs(argv, i, st) ==
    IF st.error # "" \/ i > Len(argv) THEN st
    ELSE LET arg == argv[i] IN
        IF arg.text \in {"-p", "--pixel-size"} THEN
            IF i + 1 > Len(argv)
            THEN [st EXCEPT !.error = "--pixel-size requires a value"]
            ELSE IF ~argv[i + 1].number
            THEN [st EXCEPT !.error = "Invalid pixel size value"]
            ELSE ParseArgs(argv, i + 2,
                           [st EXCEPT !.pixel_size_um = argv[i + 1].val])
        ELSE IF arg.text \in {"-l", "--layer-height"} THEN
            IF i + 1 > Len(argv)
            THEN [st EXCEPT !.error = "--layer-height requires a value"]
            ELSE IF ~argv[i + 1].number
            THEN [st EXCEPT !.error = "Invalid layer height value"]
            ELSE ParseArgs(argv, i + 2,
                           [st EXCEPT !.layer_height_um = argv[i + 1].val])
        ELSE IF arg.text = "--zero-slice-position" THEN
            ParseArgs(argv, i + 1, [st EXCEPT !.zero_slice_position = TRUE])
        ELSE IF arg.text = "--keep-above-zero" THEN
            ParseArgs(argv, i + 1, [st EXCEPT !.delete_below_zero = FALSE])
        ELSE IF arg.text = "--keep-output-dir" THEN
            ParseArgs(argv, i + 1, [st EXCEPT !.delete_output_dir = FALSE])
        ELSE IF arg.text = "--open-output-dir" THEN
            ParseArgs(argv, i + 1, [st EXCEPT !.open_output_dir = TRUE])
        ELSE IF ~arg.dash THEN
            ParseArgs(argv, i + 1, Positional(st, arg))
        ELSE [st EXCEPT !.error = "Unknown option"]

\* main up to the call of slice: what it decides to do, and its locals then
Main(argv) ==
    IF Len(argv) > 0 /\ argv[1].text \in {"-h", "--help"}
    THEN [outcome |-> "help", locals |-> Locals]
    ELSE IF Len(argv) > 0 /\ argv[1].text = "--gui"
    THEN [outcome |-> "gui", locals |-> Locals]
    ELSE IF Len(argv) + 1 < 3
    THEN [outcome |-> "exit",
          locals |-> [Locals EXCEPT !.error = "Missing required arguments"]]
    ELSE LET st == ParseArgs(argv, 1, Locals) IN
        IF st.error # "" THEN [outcome |-> "exit", locals |-> st]
        ELSE IF st.input_path = "" \/ st.output_dir = ""
        THEN [outcome |-> "exit",
              locals |-> [st EXCEPT !.error =
                  "Missing required arguments <INPUT_STL> and <OUTPUT_DIR>"]]
        ELSE [outcome |-> "slice", locals |-> st]

\* let config = SlicerConfig { .. } from the locals
ConfigOf(st) ==
    SlicerConfig(st.pixel_size_um, st.layer_height_um, st.zero_slice_position,
                 st.delete_below_zero, st.delete_output_dir)

\* the exit status of the process: 0 when main returns Ok(()), 1 after
\* std::process::exit(1) and when main returns Err, 101 when a panic (a
\* failed .expect()) unwinds out of main
ExitStatus(how) ==
    CASE how = "ok" -> {<<0>>}
      [] how = "help" -> {<<0>>}
      [] how = "exit" -> {<<1>>}
      [] how = "gui" -> {<<0>>, <<1>>}
      [] how = "panic" -> {<<101>>}

\* ------------------------------------------------------------------------
\* slice_with_progress: start, load, convert, build
\* ------------------------------------------------------------------------

Pixels == (0..(width_px - 1)) \X (0..(height_px - 1))

\* the state of a run that is about to execute slice_with_progress
StartRun ==
    /\ run < MaxRuns
    /\ pc \in {"idle", "done"}
    /\ pc' = "load"
    /\ run' = run + 1
    /\ col_pc' = [p \in Pixels |-> "todo"]
    /\ spans' = [c \in Cells |-> <<>>]
    /\ span_writes' = [c \in Cells |-> 0]
    /\ layer_pc' = [i \in Layers |-> "todo"]
    /\ layer_out' = NoFiles
    /\ completed_layers' = 0
    /\ prev_files' = out_dir.files
    /\ sent' = <<>>
    /\ chan' = <<>>
    /\ UNCHANGED <<args, config, mesh, env, out_dir>>

\* main: parse the arguments, then slice(config), that is
\* slice_with_progress(config, None); config is the SlicerConfig that main
\* builds from args. A process starts once the one before it has exited
CliMain ==
    /\ env.consumer = "none"
    /\ pc = "idle" \/ exit_code # <<>>
    /\ \/ /\ Main(args).outcome = "slice"
          /\ StartRun
          /\ exit_code' = <<>>
          /\ UNCHANGED <<rx, is_processing, progress_rx>>
       \/ /\ Main(args).outcome # "slice"
          /\ exit_code = <<>>
          /\ exit_code' \in ExitStatus(Main(args).outcome)
          /\ UNCHANGED <<args, config, mesh, env, pc, run, col_pc, spans,
                         span_writes, layer_pc, layer_out, completed_layers,
                         out_dir, prev_files, chan, rx, sent, is_processing,
                         progress_rx>>

\* main after slice(config): Ok(()) when slice returned, and the panic of a
\* failed .expect() leaving main otherwise
CliExit ==
    /\ env.consumer = "none"
    /\ pc \in {"done", "panicked"}
    /\ exit_code = <<>>
    /\ exit_code' \in ExitStatus(IF pc = "done" THEN "ok" ELSE "panic")
    /\ UNCHANGED <<args, config, mesh, env, pc, run, col_pc, spans,
                   span_writes, layer_pc, layer_out, completed_layers,
                   out_dir, prev_files, chan, rx, sent, is_processing,
                   progress_rx>>

\* a caller of the library that keeps the Receiver for itself
LibCall ==
    /\ env.consumer = "other"
    /\ StartRun
    /\ rx' = "alive"
    /\ UNCHANGED <<exit_code, is_processing, progress_rx>>

\* SlicerApp::update(Message::Slice); the button is offered only while
\* is_processing is false
GuiSlice ==
    /\ env.consumer = "gui"
    /\ ~is_processing
    /\ \/ /\ env.input_path_empty
          /\ UNCHANGED vars
       \/ /\ ~env.input_path_empty
          /\ StartRun
          /\ is_processing' = TRUE
          /\ progress_rx' = TRUE
          /\ rx' = "alive"
          /\ UNCHANGED exit_code

\* send_progress(0.0, "Loading STL..."); File::open(..).expect(..);
\* stl_io::read_stl(..).expect(..)
Load ==
    /\ pc = "load"
    /\ SendProgress(Event(0, 100, "Loading STL...", 0))
    /\ pc' = IF SendPanics \/ env.io = "bad_input" THEN "panicked" ELSE "convert"
    /\ UNCHANGED <<args, exit_code, config, mesh, env, run, col_pc, spans, span_writes, layer_pc,
                   layer_out, completed_layers, out_dir, prev_files, rx,
                   is_processing, progress_rx>>

\* send_progress(0.05, "Converting {} triangles..."); the triangle loop
Convert ==
    /\ pc = "convert"
    /\ SendProgress(Event(5, 100, "Converting triangles...", 0))
    /\ pc' = IF SendPanics THEN "panicked" ELSE "bvh"
    /\ UNCHANGED <<args, exit_code, config, mesh, env, run, col_pc, spans, span_writes, layer_pc,
                   layer_out, completed_layers, out_dir, prev_files, rx,
                   is_processing, progress_rx>>

\* send_progress(0.1, "Building BVH..."); BVH::build; the bounds loop
BuildBvh ==
    /\ pc = "bvh"
    /\ SendProgress(Event(10, 100, "Building BVH...", 0))
    /\ pc' = IF SendPanics THEN "panicked" ELSE "raytrace"
    /\ UNCHANGED <<args, exit_code, config, mesh, env, run, col_pc, spans, span_writes, layer_pc,
                   layer_out, completed_layers, out_dir, prev_files, rx,
                   is_processing, progress_rx>>

\* send_progress(0.15, "Raytracing pixels..."); the column pass is forked
Raytrace ==
    /\ pc = "raytrace"
    /\ SendProgress(Event(15, 100, "Raytracing pixels...", 0))
    /\ pc' = IF SendPanics THEN "panicked" ELSE "columns"
    /\ UNCHANGED <<args, exit_code, config, mesh, env, run, col_pc, spans, span_writes, layer_pc,
                   layer_out, completed_layers, out_dir, prev_files, rx,
                   is_processing, progress_rx>>

\* ------------------------------------------------------------------------
\* Column phase
\* ------------------------------------------------------------------------

\* the place of column (x, y) in the Vec that flat_map(..).collect() builds:
\* rows in order, the pixels of a row in order
CollectIndex(x, y, w) == y * w + x

\* the closure of the column pass for pixel (x, y): the crossings of its ray
\* are sorted and paired, and the result becomes one cell of the span grid
ColumnTask(x, y) ==
    /\ pc = "columns"
    /\ col_pc[<<x, y>>] = "todo"
    /\ col_pc' = [col_pc EXCEPT ![<<x, y>>] = "done"]
    /\ spans' = [spans EXCEPT ![CollectIndex(x, y, width_px)] =
                    PixelSpans(mesh.hits[<<x, y>>])]
    /\ span_writes' = [span_writes EXCEPT ![CollectIndex(x, y, width_px)] = @ + 1]
    /\ UNCHANGED <<args, exit_code, config, mesh, env, pc, run, layer_pc, layer_out,
                   completed_layers, out_dir, prev_files, chan, rx, sent,
                   is_processing, progress_rx>>

\* the layer pass forked without waiting for the column pass
NotJoined == TRUE

\* collect() returns once every column closure has returned
ColumnsJoined == \A p \in Pixels : col_pc[p] = "done"

\* ------------------------------------------------------------------------
\* Layer phase
\* ------------------------------------------------------------------------

\* send_progress(0.5, "Generating slices..."); the output directory is
\* removed if asked and created; the layer pass is forked
Prepare ==
    /\ pc = "columns"
    /\ ColumnsJoined
    /\ SendProgress(Event(50, 100, "Generating slices...", 0))
    /\ IF SendPanics \/ env.io = "bad_dir"
       THEN pc' = "panicked" /\ UNCHANGED out_dir
       ELSE pc' = "layers" /\ out_dir' = PreparedDir(out_dir)
    /\ UNCHANGED <<args, exit_code, config, mesh, env, run, col_pc, spans, span_writes, layer_pc,
                   layer_out, completed_layers, prev_files, rx,
                   is_processing, progress_rx>>

\* the closure of the layer pass for layer i
LayerTask(i) ==
    /\ pc = "layers"
    /\ layer_pc[i] = "todo"
    /\ IF Skipped(i)
       THEN /\ layer_pc' = [layer_pc EXCEPT ![i] = "skipped"]
            /\ UNCHANGED <<layer_out, completed_layers, out_dir, chan, sent>>
       ELSE IF env.io = "bad_encoder"
       THEN /\ layer_pc' = [layer_pc EXCEPT ![i] = "panicked"]
            /\ UNCHANGED <<layer_out, completed_layers, out_dir, chan, sent>>
       ELSE LET img == RenderLayer(LayerZ(i), spans, width_px, height_px)
                z_microns == ZMicrons(i)
                completed == completed_layers + 1
            IN  /\ out_dir' = [out_dir EXCEPT
                                  !.files = SaveFile(@, z_microns, img.pix)]
                /\ layer_out' = SaveFile(layer_out, i,
                                    [img |-> img, z_microns |-> z_microns])
                /\ completed_layers' = completed
                /\ IF ReportsProgress(completed)
                   THEN /\ SendProgress(LayerEvent(completed))
                        /\ layer_pc' = [layer_pc EXCEPT ![i] =
                               IF SendPanics THEN "panicked" ELSE "done"]
                   ELSE /\ UNCHANGED <<chan, sent>>
                        /\ layer_pc' = [layer_pc EXCEPT ![i] = "done"]
    /\ UNCHANGED <<args, exit_code, config, mesh, env, pc, run, col_pc, spans, span_writes,
                   prev_files, rx, is_processing, progress_rx>>

\* for_each returns once every layer closure has returned
LayersJoined == \A i \in Layers : layer_pc[i] \in {"done", "skipped"}

\* send_progress(1.0, "Done!"); opener::open's result is discarded
Finish ==
    /\ pc = "layers"
    /\ LayersJoined
    /\ SendProgress(Event(100, 100, "Done!", 0))
    /\ pc' = IF SendPanics THEN "panicked" ELSE "done"
    /\ UNCHANGED <<args, exit_code, config, mesh, env, run, col_pc, spans, span_writes, layer_pc,
                   layer_out, completed_layers, out_dir, prev_files, rx,
                   is_processing, progress_rx>>

\* a panic of a layer closure is resumed by for_each in the caller; the
\* closures that have not run yet may or may not run before that
Abort ==
    /\ pc = "layers"
    /\ \E i \in Layers : layer_pc[i] = "panicked"
    /\ pc' = "panicked"
    /\ UNCHANGED <<args, exit_code, config, mesh, env, run, col_pc, spans, span_writes, layer_pc,
                   layer_out, completed_layers, out_dir, prev_files, chan, rx,
                   sent, is_processing, progress_rx>>

\* ------------------------------------------------------------------------
\* Consumers of the progress channel
\* ------------------------------------------------------------------------

\* SlicerApp::update(Message::Tick); the subscription delivers Tick only
\* while is_processing.  try_recv drains the channel; an event with
\* progress >= 1.0 ends the run in the GUI and drops the Receiver
GuiTick ==
    /\ env.consumer = "gui"
    /\ is_processing
    /\ LET should_finish ==
               progress_rx /\ \E k \in 1..Len(chan) : AtLeastOne(chan[k])
       IN  /\ chan' = IF progress_rx THEN <<>> ELSE chan
           /\ is_processing' = IF should_finish THEN FALSE ELSE is_processing
           /\ progress_rx' = IF should_finish THEN FALSE ELSE progress_rx
           /\ rx' = IF should_finish THEN "dropped" ELSE rx
    /\ UNCHANGED <<args, exit_code, config, mesh, env, pc, run, col_pc, spans, span_writes,
                   layer_pc, layer_out, completed_layers, out_dir, prev_files,
                   sent>>

\* the other caller drops its Receiver, at any point of the run
DropReceiver ==
    /\ env.consumer = "other"
    /\ rx = "alive"
    /\ rx' = "dropped"
    /\ chan' = <<>>
    /\ UNCHANGED <<args, exit_code, config, mesh, env, pc, run, col_pc, spans, span_writes,
                   layer_pc, layer_out, completed_layers, out_dir, prev_files,
                   sent, is_processing, progress_rx>>

\* ------------------------------------------------------------------------
\* Inputs: configurations, meshes, callers
\* ------------------------------------------------------------------------

\* the pixels of a mesh of extent sx by sy at pixel size px
PixelsOf(sx, sy, px) == (0..(CeilDiv(sx, px) - 1)) \X (0..(CeilDiv(sy, px) - 1))

Mesh(sx, sy, lo, hi, hits) ==
    [size_x |-> sx, size_y |-> sy, min_z |-> lo, max_z |-> hi, hits |-> hits]

Env(consumer, io, empty) ==
    [consumer |-> consumer, io |-> io, input_path_empty |-> empty]

\* a command line that makes main build the configuration c
ArgsOf(c) ==
    <<Opt("-p"), Num(c.pixel_size), Opt("-l"), Num(c.layer_height)>>
    \o (IF c.zero_slice_position THEN <<Opt("--zero-slice-position")>> ELSE <<>>)
    \o (IF c.delete_below_zero THEN <<>> ELSE <<Opt("--keep-above-zero")>>)
    \o (IF c.delete_output_dir THEN <<>> ELSE <<Opt("--keep-output-dir")>>)
    \o <<Word("model.stl"), Word("output")>>

\* a run with the configuration c; the command line matters to main only
Input(c, m, e, d) ==
    [config |-> c, mesh |-> m, env |-> e, out_dir |-> d,
     args |-> IF e.consumer = "none" THEN ArgsOf(c) ELSE <<>>]

\* the command-line program started with the arguments a
CliInput(a, m, io, d) ==
    [config |-> ConfigOf(Main(a).locals), mesh |-> m,
     env |-> Env("none", io, FALSE), out_dir |-> d, args |-> a]

\* a file that is no output of this slicer
StalePix == [p \in {<<0, 0>>} |-> 128]

NoDir == [exists |-> FALSE, files |-> NoFiles]

StaleDir == [exists |-> TRUE, files |-> (0 :> StalePix) @@ (777 :> StalePix)]

QuietEnv == Env("none", "ok", FALSE)

Consumers == {"none", "gui", "other"}

IoConditions == {"ok", "bad_input", "bad_dir", "bad_encoder"}

\* every caller under every I/O condition, for one configuration and mesh;
\* the GUI with no input path, and the program with no arguments
EnvInputs(c, m) ==
    {Input(c, m, Env(k, io, FALSE), NoDir) : k \in Consumers, io \in IoConditions}
    \cup {Input(c, m, Env("gui", "ok", TRUE), NoDir)}
    \cup {CliInput(<<>>, m, "ok", NoDir)}

\* a box from lo to hi two pixels wide and one deep; the BVH yields the top
\* face before the bottom face
BoxMesh(lo, hi) ==
    Mesh(2, 1, lo, hi, [p \in PixelsOf(2, 1, 1) |-> <<hi, lo>>])

\* the same bounds, but the solid under pixel (0, 0) ends below the top
StepMesh(lo, hi) ==
    Mesh(2, 1, lo, hi,
         [p \in PixelsOf(2, 1, 1) |->
             IF p = <<0, 0>> THEN <<lo, hi - 12>> ELSE <<hi, lo>>])

\* the cube from -5 mm to 5 mm seen through one pixel of 10 mm
OffsetCube ==
    Mesh(100000, 100000, -50000, 50000,
         [p \in PixelsOf(100000, 100000, 100000) |-> <<-50000, 50000>>])

\* z-ranges and layer heights around z = 0; a layer height below 10 units
\* is below one micrometre
SmallRanges ==
    {r \in {-30, -20, 0} \X {-5, 20, 30, 60} : r[1] < r[2]}

LayerHeights == {5, 10, 15}

SmallScenes ==
    {s \in SmallRanges \X LayerHeights :
        CeilDiv(s[1][2] - s[1][1], s[2]) \in 1..MaxLayers}

\* labelling and directory contents: every flag, both directories, no channel
LabelInputs ==
    UNION {
        {Input(SlicerConfig(1, s[2], zsp, dbz, dod), m, QuietEnv, d) :
            zsp \in BOOLEAN, dbz \in BOOLEAN, dod \in BOOLEAN,
            m \in {BoxMesh(s[1][1], s[1][2]), StepMesh(s[1][1], s[1][2])},
            d \in {NoDir, StaleDir}} :
        s \in SmallScenes}

\* progress events: the callers that pass a channel
ChannelInputs ==
    {Input(SlicerConfig(1, s[2], FALSE, dbz, TRUE), BoxMesh(s[1][1], s[1][2]),
           Env(k, "ok", FALSE), NoDir) :
        s \in SmallScenes, dbz \in BOOLEAN, k \in {"gui", "other"}}

\* the offset cube at a layer height of 1000 micrometres
CubeInputs ==
    {Input(SlicerConfig(100000, 10000, zsp, dbz, TRUE), OffsetCube,
           Env(k, "ok", FALSE), NoDir) :
        zsp \in BOOLEAN, dbz \in BOOLEAN, k \in {"none", "gui"}}

Inputs ==
    LabelInputs \cup ChannelInputs \cup CubeInputs
    \cup EnvInputs(SlicerConfig(1, 10, FALSE, TRUE, TRUE), BoxMesh(-20, 20))

\* every sequence of at most MaxHits crossings at heights 0..ZTop, in any
\* order (the BVH yields candidate triangles in no particular order)
HitSeqs == UNION {[1..n -> 0..ZTop] : n \in 0..MaxHits}

\* a solid of height ZTop on a grid of two by two pixels: the ray of pixel
\* (0, 0) finds any crossings; the rays of (1, 0), (0, 1) and (1, 1) find a
\* solid column, nothing and a single grazing hit
ProbeMesh(hits) ==
    Mesh(2, 2, 0, ZTop,
         [p \in PixelsOf(2, 2, 1) |->
             IF p = <<0, 0>> THEN hits
             ELSE IF p = <<1, 0>> THEN <<ZTop, 0>>
             ELSE IF p = <<0, 1>> THEN <<>>
             ELSE <<ZTop>>])

\* a layer every length unit, so that layers fall on, next to and away from
\* the span ends
ProbeConfig == SlicerConfig(1, 1, FALSE, FALSE, TRUE)

ProbeInputs ==
    {Input(ProbeConfig, ProbeMesh(hits), QuietEnv, NoDir) : hits \in HitSeqs}

\* the shell between the cubes (0,0,0)-(10,10,10) and (3,3,3)-(7,7,7), in mm,
\* on three by three pixels: the ray of the centre pixel passes through the
\* hollow, every other ray through the wall only
HollowBox ==
    Mesh(100000, 100000, 0, 100000,
         [p \in PixelsOf(100000, 100000, 33334) |->
             IF p = <<1, 1>> THEN <<0, 100000, 70000, 30000>>
             ELSE <<100000, 0>>])

\* layers of 1000 micrometres: layer 5 is at z = 5 mm
HollowConfig == SlicerConfig(33334, 10000, FALSE, FALSE, TRUE)

\* the least and the greatest of the coordinate k over the vertices
MinBound(triangles, k) ==
    LET vs == UNION {{triangles[n].v0[k], triangles[n].v1[k], triangles[n].v2[k]} :
                        n \in 1..Len(triangles)}
    IN  CHOOSE v \in vs : \A w \in vs : v <= w

MaxBound(triangles, k) ==
    LET vs == UNION {{triangles[n].v0[k], triangles[n].v1[k], triangles[n].v2[k]} :
                        n \in 1..Len(triangles)}
    IN  CHOOSE v \in vs : \A w \in vs : v >= w

\* a mesh given by its triangles: the bounds of its vertices, and on every
\* pixel the crossings that Triangle::intersect reports
TriangleMesh(triangles, px) ==
    LET lo == <<MinBound(triangles, 1), MinBound(triangles, 2), MinBound(triangles, 3)>>
        sx == MaxBound(triangles, 1) - lo[1]
        sy == MaxBound(triangles, 2) - lo[2]
    IN  Mesh(sx, sy, lo[3], MaxBound(triangles, 3),
             [p \in PixelsOf(sx, sy, px) |->
                 Hits(triangles, ColumnRay(p[1], p[2], lo, px))])

\* the square of side 20 at height z as two triangles that share the
\* diagonal from (0, 0) to (20, 20) ("ac") or from (20, 0) to (0, 20) ("bd")
Square(z, diagonal) ==
    IF diagonal = "ac"
    THEN <<Triangle(<<0, 0, z>>, <<20, 0, z>>, <<20, 20, z>>),
           Triangle(<<0, 0, z>>, <<20, 20, z>>, <<0, 20, z>>)>>
    ELSE <<Triangle(<<0, 0, z>>, <<20, 0, z>>, <<0, 20, z>>),
           Triangle(<<20, 0, z>>, <<20, 20, z>>, <<0, 20, z>>)>>

\* the wall from z = 0 to z = top over the edge from p to q
Wall(p, q, top) ==
    <<Triangle(<<p[1], p[2], 0>>, <<q[1], q[2], 0>>, <<q[1], q[2], top>>),
      Triangle(<<p[1], p[2], 0>>, <<q[1], q[2], top>>, <<p[1], p[2], top>>)>>

\* the closed box of side 20 and height top: twelve triangles
Prism(top, below, above) ==
    Square(0, below) \o Square(top, above)
    \o Wall(<<0, 0>>, <<20, 0>>, top) \o Wall(<<20, 0>>, <<20, 20>>, top)
    \o Wall(<<20, 20>>, <<0, 20>>, top) \o Wall(<<0, 20>>, <<0, 0>>, top)

\* two by two pixels of 10 units: the rays of two of them pass through the
\* diagonal of a face; a layer every length unit
PrismConfig == SlicerConfig(10, 1, FALSE, FALSE, TRUE)

\* the boxes of height ZTop and ZTop + 1, their faces split either way
PrismMeshes ==
    {TriangleMesh(Prism(top, below, above), 10) :
        top \in {ZTop, ZTop + 1}, below \in {"ac", "bd"}, above \in {"ac", "bd"}}

PrismInputs == {Input(PrismConfig, m, QuietEnv, NoDir) : m \in PrismMeshes}

\* the arguments a command line is made of: the options, a help and a GUI
\* flag, an option the program does not know, a number and two paths
Args ==
    {Opt("-p"), Opt("-l"), Opt("--zero-slice-position"),
     Opt("--keep-above-zero"), Opt("--keep-output-dir"),
     Opt("--open-output-dir"), Opt("-h"), Opt("--gui"), Opt("--bogus"),
     Num(100), Word("model.stl"), Word("output")}

\* the command lines of n arguments
ArgSeqs(n) == [1..n -> Args]

\* a solid from z = -200 to z = 200 on one pixel of the default size, and
\* on two by two pixels of 100 units
CliMesh ==
    Mesh(150, 150, -200, 200,
         [p \in PixelsOf(150, 150, 100) |-> <<200, -200>>])

RasterInputs ==
    ProbeInputs
    \cup PrismInputs
    \cup {Input(HollowConfig, HollowBox, QuietEnv, NoDir)}
    \cup EnvInputs(ProbeConfig, ProbeMesh(<<2, 0>>))

\* ------------------------------------------------------------------------
\* Specification
\* ------------------------------------------------------------------------

\* the state before the caller starts the program on the input inp
InitFrom(inp) ==
    /\ config = inp.config
    /\ mesh = inp.mesh
    /\ env = inp.env
    /\ out_dir = inp.out_dir
    /\ pc = "idle"
    /\ run = 0
    /\ col_pc = [p \in PixelsOf(inp.mesh.size_x, inp.mesh.size_y,
                                inp.config.pixel_size) |-> "todo"]
    /\ spans = <<>>
    /\ span_writes = <<>>
    /\ layer_pc = <<>>
    /\ layer_out = NoFiles
    /\ completed_layers = 0
    /\ prev_files = inp.out_dir.files
    /\ chan = <<>>
    /\ rx = "none"
    /\ sent = <<>>
    /\ is_processing = FALSE
    /\ progress_rx = FALSE
    /\ args = inp.args
    /\ exit_code = <<>>

InitWith(inputs) == \E inp \in inputs : InitFrom(inp)

Init == InitWith(Inputs)

Next ==
    \/ CliMain
    \/ CliExit
    \/ LibCall
    \/ GuiSlice
    \/ Load
    \/ Convert
    \/ BuildBvh
    \/ Raytrace
    \/ \E p \in Pixels : ColumnTask(p[1], p[2])
    \/ Prepare
    \/ \E i \in Layers : LayerTask(i)
    \/ Finish
    \/ Abort
    \/ GuiTick
    \/ DropReceiver

Spec == Init /\ [][Next]_vars

\* the same program on the inputs that exercise the span engine and the
\* rasterizer
InitRaster == InitWith(RasterInputs)

SpecRaster == InitRaster /\ [][Next]_vars

\* the steps of the thread that runs slice_with_progress and of its tasks
Worker ==
    \/ Load
    \/ Convert
    \/ BuildBvh
    \/ Raytrace
    \/ \E p \in Pixels : ColumnTask(p[1], p[2])
    \/ Prepare
    \/ \E i \in Layers : LayerTask(i)
    \/ Finish
    \/ Abort

\* every caller under every I/O condition, on a box of four layers
InitGui == InitWith(EnvInputs(SlicerConfig(1, 10, FALSE, TRUE, TRUE), BoxMesh(-20, 20)))

\* the program with a scheduler that keeps running the worker thread, and
\* the subscription that delivers Tick every 100 ms while is_processing
SpecGui == InitGui /\ [][Next]_vars /\ WF_vars(Worker) /\ WF_vars(GuiTick)

\* the same program started from the command line
\* every command line of at most MaxArgs arguments, those that reach slice
\* under every I/O condition; and every other caller
InitCli ==
    \/ InitWith(EnvInputs(ConfigOf(Locals), CliMesh))
    \/ \E n \in 0..MaxArgs : \E a \in ArgSeqs(n) : \E io \in IoConditions :
          /\ io = "ok" \/ Main(a).outcome = "slice"
          /\ InitFrom(CliInput(a, CliMesh, io, NoDir))

SpecCli == InitCli /\ [][Next]_vars

\* ------------------------------------------------------------------------
\* C1: bitmap of a layer
\* ------------------------------------------------------------------------

\* the span list of column (x, y): what its column task derives from the
\* crossings of its ray
ColumnSpans(p) == PixelSpans(mesh.hits[p])

\* some span of column p holds z within one length unit (1e-4 mm)
SomeSpanHolds(p, z) ==
    \E k \in 1..Len(ColumnSpans(p)) :
        /\ ColumnSpans(p)[k].enter - 1 <= z
        /\ z <= ColumnSpans(p)[k].exit + 1

\* C1: in the bitmap of every emitted layer i, the pixel (x, height_px-1-y)
\* is 255 if some span of column (x, y) holds z_i within 1e-4 mm and 0
\* otherwise; the bitmap has exactly the width_px * height_px pixels, each
\* was put once, and each is 0 or 255.
C1_PixelsFollowSlabTest ==
    \A i \in DOMAIN layer_out :
        LET img == layer_out[i].img
        IN  /\ DOMAIN img.pix = Pixels
            /\ \A p \in Pixels :
                  LET q == <<p[1], height_px - 1 - p[2]>>
                  IN  /\ img.pix[q] =
                            IF SomeSpanHolds(p, start_z + i * layer_height_mm)
                            THEN 255 ELSE 0
                      /\ img.puts[q] = 1
            /\ \A q \in Pixels : img.pix[q] \in {0, 255}

\* a bitmap with a black pixel and with a white pixel that no span holds
\* exactly: it is white by the epsilon alone, and its row is flipped
C1_Witness ==
    \E i \in DOMAIN layer_out :
        /\ \E q \in Pixels : layer_out[i].img.pix[q] = 0
        /\ \E p \in Pixels :
              /\ p[2] # height_px - 1 - p[2]
              /\ layer_out[i].img.pix[<<p[1], height_px - 1 - p[2]>>] = 255
              /\ layer_out[i].img.pix[p] = 0
              /\ \A k \in 1..Len(ColumnSpans(p)) :
                    \/ LayerZ(i) < ColumnSpans(p)[k].enter
                    \/ LayerZ(i) > ColumnSpans(p)[k].exit

\* ------------------------------------------------------------------------
\* C2: span lists
\* ------------------------------------------------------------------------

\* the cell of the span grid that holds column p
CellOf(p) == spans[p[2] * width_px + p[1]]

\* C2: the span list of every finished column has enter <= exit in each
\* span and exit <= the next span's enter (sorted, non-overlapping), and it
\* is empty when the ray found fewer than two crossings.
C2_SpansMonotone ==
    \A p \in Pixels :
        col_pc[p] = "done" =>
            /\ \A k \in 1..Len(CellOf(p)) : CellOf(p)[k].enter <= CellOf(p)[k].exit
            /\ \A k \in 1..(Len(CellOf(p)) - 1) :
                  CellOf(p)[k].exit <= CellOf(p)[k + 1].enter
            /\ Len(mesh.hits[p]) < 2 => CellOf(p) = <<>>

\* a finished column whose four crossings came out of order and made two
\* spans, next to a finished column with a single crossing and no span
C2_Witness ==
    /\ pc = "columns"
    /\ \E p \in Pixels :
          /\ col_pc[p] = "done"
          /\ Len(mesh.hits[p]) = 4
          /\ mesh.hits[p][1] > mesh.hits[p][2]
          /\ mesh.hits[p][3] > mesh.hits[p][4]
          /\ Len(CellOf(p)) = 2
          /\ CellOf(p)[1].exit < CellOf(p)[2].enter
    /\ \E p \in Pixels :
          /\ col_pc[p] = "done"
          /\ Len(mesh.hits[p]) = 1
          /\ CellOf(p) = <<>>

\* ------------------------------------------------------------------------
\* C3: the hollow box
\* ------------------------------------------------------------------------

\* the run slices the hollow box, and its column pass has finished
HollowSliced ==
    mesh = HollowBox /\ config = HollowConfig /\ pc \in {"layers", "done"}

\* the column through the hollow has the spans (0,3) and (7,10) mm, a column
\* through the wall the span (0,10) mm
HollowSpans ==
    /\ CellOf(<<1, 1>>) = <<[enter |-> 0, exit |-> 30000],
                            [enter |-> 70000, exit |-> 100000]>>
    /\ CellOf(<<0, 0>>) = <<[enter |-> 0, exit |-> 100000]>>

\* the value the layer at z = 5 mm gives the pixels of the hollow column and
\* of a wall column (layer 5 of the run; the image row of grid row 1 is 1,
\* that of grid row 0 is 2)
HollowLayer(hollow, wall) ==
    5 \in DOMAIN layer_out =>
        /\ layer_out[5].img.pix[<<1, 1>>] = hollow
        /\ layer_out[5].img.pix[<<0, 2>>] = wall

\* C3 as claimed: the spans are [(0,3),(7,10)] and [(0,10)], and at z = 5
\* both the pixel through the hollow and the pixel through the wall are white.
C3_HollowPixelWhite ==
    HollowSliced => HollowSpans /\ HollowLayer(255, 255)

\* C3 as amended: the spans are [(0,3),(7,10)] and [(0,10)]; at z = 5 the
\* pixel through the hollow is black (z = 5 lies in no span of its column)
\* and the pixel through the wall is white.
C3_HollowPixelBlack ==
    HollowSliced => HollowSpans /\ HollowLayer(0, 255)

\* the layer at z = 5 mm of the hollow box has been rendered
C3_Witness ==
    /\ HollowSliced
    /\ 5 \in DOMAIN layer_out
    /\ LayerZ(5) = 50000
    /\ mesh.hits[<<1, 1>>] = <<0, 100000, 70000, 30000>>

\* ------------------------------------------------------------------------
\* C4: layers below zero
\* ------------------------------------------------------------------------

\* the layers that have saved an image
Emitted == DOMAIN layer_out

\* the z labels the emitted layers saved under
Labels == {layer_out[i].z_microns : i \in Emitted}

\* C4: with delete_below_zero only layers with z_i >= 0 ever save an image,
\* and a run that has finished has saved one image for exactly the layers
\* i in [0, num_layers) with z_i = min.z + i * layer_height_mm >= 0; without
\* delete_below_zero it has saved one image for every layer.  No file
\* appears in the directory but under the label of an emitted layer, and a
\* mesh fully below z = 0 leaves a directory that was removed, absent or
\* empty at the start existing and empty.
C4_SkipBelowZero ==
    /\ \A i \in Emitted :
          config.delete_below_zero => start_z + i * layer_height_mm >= 0
    /\ \A l \in DOMAIN out_dir.files : l \in DOMAIN prev_files \/ l \in Labels
    /\ pc = "done" =>
          /\ \A i \in 0..(num_layers - 1) :
                i \in Emitted <=>
                    (~config.delete_below_zero \/ start_z + i * layer_height_mm >= 0)
          /\ completed_layers = Cardinality(Emitted)
          /\ \A i \in 0..(num_layers - 1) : layer_pc[i] \in {"done", "skipped"}
          /\ (/\ config.delete_below_zero
              /\ end_z < 0
              /\ config.delete_output_dir \/ prev_files = NoFiles)
             => out_dir = [exists |-> TRUE, files |-> NoFiles]

\* a finished run over a mesh fully below zero: every layer was skipped, the
\* stale directory was removed and the new one is empty
C4_Witness ==
    /\ pc = "done"
    /\ config.delete_below_zero
    /\ end_z < 0
    /\ num_layers >= 2
    /\ \A i \in Layers : layer_pc[i] = "skipped"
    /\ prev_files # NoFiles
    /\ out_dir = [exists |-> TRUE, files |-> NoFiles]

\* ------------------------------------------------------------------------
\* C5: labels of the offset cube
\* ------------------------------------------------------------------------

\* the finished run over the cube from -5 mm to 5 mm at 1000 micrometres
CubeDone(zsp, dbz) ==
    /\ pc = "done"
    /\ mesh = OffsetCube
    /\ config.layer_height = 10000
    /\ config.zero_slice_position = zsp
    /\ config.delete_below_zero = dbz

\* the labels 1000 * a, ..., 1000 * b
Thousands(a, b) == {1000 * k : k \in a..b}

\* the three label sets of the offset cube that claim and code agree on
CubeLabels ==
    /\ CubeDone(FALSE, FALSE) => Labels = Thousands(-5, 4) /\ Cardinality(Emitted) = 10
    /\ CubeDone(FALSE, TRUE) => Labels = Thousands(0, 4) /\ Cardinality(Emitted) = 5
    /\ CubeDone(TRUE, FALSE) => Labels = Thousands(0, 9) /\ Cardinality(Emitted) = 10

\* C5 as claimed: with zero_slice_position and delete_below_zero the labels
\* of the offset cube are 0..4000, and with zero_slice_position the lowest
\* label of a finished run is 0 and none is negative.
C5_LabelsStartAtZero ==
    /\ CubeLabels
    /\ CubeDone(TRUE, TRUE) => Labels = Thousands(0, 4)
    /\ (pc = "done" /\ config.zero_slice_position /\ Emitted # {}) =>
          /\ 0 \in Labels
          /\ \A l \in Labels : l >= 0

\* C5 as amended: with zero_slice_position and delete_below_zero the labels
\* of the offset cube are 5000..9000; with zero_slice_position the label of
\* layer i is round(i * layer_height_um), so it is never negative, and it
\* is 0 for layer 0, emitted or not.
C5_LabelsFollowIndex ==
    /\ CubeLabels
    /\ CubeDone(TRUE, TRUE) => Labels = Thousands(5, 9) /\ Cardinality(Emitted) = 5
    /\ config.zero_slice_position =>
          \A i \in Emitted :
              /\ layer_out[i].z_microns >= 0
              /\ 2 * layer_out[i].z_microns * 10 - 10 <= 2 * i * config.layer_height
              /\ 2 * i * config.layer_height < 2 * layer_out[i].z_microns * 10 + 10
              /\ i = 0 => layer_out[i].z_microns = 0

\* the offset cube, finished with both flags set
C5_Witness ==
    /\ CubeDone(TRUE, TRUE)
    /\ Emitted = 5..9
    /\ Labels = Thousands(5, 9)

\* ------------------------------------------------------------------------
\* C6: determinism of the output directory
\* ------------------------------------------------------------------------

\* C6: with delete_output_dir, a second run over the same inputs leaves the
\* directory exactly as the first run left it: the same file names and the
\* same bitmap under each, whatever the order in which the layer tasks of
\* the two runs saved their images.
C6_RerunIdentical ==
    (pc = "done" /\ run >= 2 /\ config.delete_output_dir) =>
        out_dir.files = prev_files

\* ------------------------------------------------------------------------
\* C7: distinct file paths
\* ------------------------------------------------------------------------

\* C7: any two distinct emitted layers saved under distinct z labels, so no
\* two layer tasks write the same file.
C7_DistinctLabels ==
    \A i \in Emitted : \A j \in Emitted :
        i # j => layer_out[i].z_microns # layer_out[j].z_microns

\* ------------------------------------------------------------------------
\* C8: barrier between the phases
\* ------------------------------------------------------------------------

\* every cell of the span grid has been written once, by the column task of
\* its own pixel
GridComplete ==
    /\ \A p \in Pixels : col_pc[p] = "done"
    /\ \A c \in Cells : span_writes[c] = 1
    /\ \A p \in Pixels : CellOf(p) = PixelSpans(mesh.hits[p])

\* C8: no cell of the span grid is ever written twice; no layer task has
\* started, and the layer phase has not begun, unless every one of the
\* width_px * height_px column tasks has written its cell; and no step taken
\* in the layer phase changes the span grid.
C8_PhaseBarrier ==
    /\ [](\A c \in DOMAIN span_writes : span_writes[c] <= 1)
    /\ []((\E i \in DOMAIN layer_pc : layer_pc[i] # "todo") => GridComplete)
    /\ [](pc = "layers" => GridComplete)
    /\ [][pc = "layers" => spans' = spans]_vars

\* the layer phase under way on a grid of several cells: one layer task has
\* finished, another has not started
C8_Witness ==
    /\ pc = "layers"
    /\ Cardinality(Cells) >= 2
    /\ \E i \in Layers : layer_pc[i] = "done"
    /\ \E i \in Layers : layer_pc[i] = "todo"
    /\ \E p \in Pixels : \E q \in Pixels : CellOf(p) # CellOf(q)

\* ------------------------------------------------------------------------
\* C9: progress events of the layer phase
\* ------------------------------------------------------------------------

\* how many "Processing layer" events with this completed count were sent
LayerEventsFor(c) ==
    Cardinality({k \in 1..Len(sent) :
        /\ sent[k].event.message = "Processing layer"
        /\ sent[k].event.completed = c})

\* C9: in a finished run with a progress channel, one event was sent for
\* every multiple of five up to the number of completed layers and one for
\* the last completed layer, each exactly once, and every such event has
\* the fraction 0.5 + 0.5 * completed / num_layers, in (0.5, 1].
C9_ProgressEvents ==
    (pc = "done" /\ HasTx /\ completed_layers > 0) =>
        /\ \A c \in 1..completed_layers :
              (c % 5 = 0 \/ c = completed_layers) => LayerEventsFor(c) = 1
        /\ \A k \in 1..Len(sent) :
              sent[k].event.message = "Processing layer" =>
                  /\ sent[k].event.num * 2 * num_layers =
                        (num_layers + sent[k].event.completed) * sent[k].event.den
                  /\ 2 * sent[k].event.num > sent[k].event.den
                  /\ sent[k].event.num <= sent[k].event.den

\* ------------------------------------------------------------------------
\* C10: best-effort progress reporting
\* ------------------------------------------------------------------------

\* the layers a run emits, by its configuration alone
ExpectedLayers ==
    {i \in 0..(num_layers - 1) :
        ~(config.delete_below_zero /\ start_z + i * layer_height_mm < 0)}

\* C10: a send to a dropped receiver queues nothing and fails no task: the
\* sender unwinds only on an input, directory or encoder error, and a run
\* that finishes has emitted exactly the layers its configuration asks for,
\* whether the receiver was alive, dropped or absent.
C10_DroppedReceiverHarmless ==
    /\ rx = "dropped" => chan = <<>>
    /\ pc = "panicked" => env.io # "ok"
    /\ \A i \in DOMAIN layer_pc : layer_pc[i] = "panicked" => env.io = "bad_encoder"
    /\ pc = "done" =>
          /\ Emitted = ExpectedLayers
          /\ \A i \in Emitted :
                layer_out[i].img.pix =
                    [q \in Pixels |->
                        IF Inside(LayerZ(i), ColumnSpans(<<q[1], height_px - 1 - q[2]>>))
                        THEN 255 ELSE 0]

\* the GUI dropped the Receiver on the last layer's event (fraction 1.0),
\* the send of "Done!" failed, and the run finished with all its layers
C10_Witness ==
    /\ pc = "done"
    /\ env.consumer = "gui"
    /\ rx = "dropped"
    /\ ~is_processing
    /\ Emitted = ExpectedLayers
    /\ Emitted # {}
    /\ \E k \in 1..Len(sent) : sent[k].event.message = "Done!" /\ ~sent[k].ok
    /\ \E k \in 1..Len(sent) : sent[k].event.message = "Processing layer" /\ sent[k].ok

\* ------------------------------------------------------------------------
\* C11: exit codes of the command-line program
\* ------------------------------------------------------------------------

ValueOptions == {"-p", "--pixel-size", "-l", "--layer-height"}

FlagOptions ==
    {"--zero-slice-position", "--keep-above-zero", "--keep-output-dir",
     "--open-output-dir"}

\* the argument at k is the value of a value option
RECURSIVE IsValue(_, _)
IsValue(a, k) ==
    /\ k > 1
    /\ a[k - 1].text \in ValueOptions
    /\ ~IsValue(a, k - 1)

PositionalArgs(a) ==
    {k \in 1..Len(a) : ~IsValue(a, k) /\ ~a[k].dash /\ a[k].text # ""}

\* an argument error as the usage describes it: a positional argument
\* missing, the value of an option missing or not a number, an option the
\* program does not know, a third positional argument
ArgumentError(a) ==
    /\ ~(Len(a) > 0 /\ a[1].text \in {"-h", "--help", "--gui"})
    /\ \/ Cardinality(PositionalArgs(a)) # 2
       \/ \E k \in 1..Len(a) :
             /\ ~IsValue(a, k)
             /\ \/ a[k].text \in ValueOptions /\ k = Len(a)
                \/ a[k].dash /\ a[k].text \notin ValueOptions \cup FlagOptions
       \/ \E k \in 1..Len(a) : IsValue(a, k) /\ ~a[k].number

\* nothing of slice_with_progress has happened
NoSlicingWork ==
    /\ pc = "idle"
    /\ run = 0
    /\ sent = <<>>
    /\ layer_out = NoFiles
    /\ out_dir.files = prev_files

\* C11: the command-line process exits with 0 when the slice succeeds, with
\* 1 on every argument error and with 1 on every I/O error (the run ended in
\* a failed open, parse, directory removal or creation, or image write); on
\* an argument error no slicing work is ever begun.
C11_ExitCodes ==
    env.consumer = "none" =>
        /\ ArgumentError(args) => NoSlicingWork
        /\ exit_code # <<>> =>
              /\ ArgumentError(args) => exit_code = <<1>>
              /\ pc = "panicked" => exit_code = <<1>>
              /\ pc = "done" => exit_code = <<0>>

\* the argument errors of the usage are the command lines on which main
\* calls std::process::exit(1), the process then exits 1 before any slicing
\* work, and a finished slice exits 0
ArgumentErrorsExitOne ==
    env.consumer = "none" =>
        /\ ArgumentError(args) <=> Main(args).outcome = "exit"
        /\ ArgumentError(args) => NoSlicingWork
        /\ exit_code # <<>> =>
              /\ ArgumentError(args) => exit_code = <<1>>
              /\ pc = "done" => exit_code = <<0>>

\* a process that ended in a failed .expect() has exited with 101
PanicExitReached ==
    /\ env.consumer = "none"
    /\ pc = "panicked"
    /\ exit_code = <<101>>

\* ------------------------------------------------------------------------
\* C12: crossings reported more than once
\* ------------------------------------------------------------------------

\* the heights that occur more than once among the crossings
Duplicated(hits) ==
    {hits[k] : k \in {j \in 1..Len(hits) :
                         \E n \in 1..Len(hits) : n # j /\ hits[n] = hits[j]}}

RECURSIVE Once(_)
\* the crossings with every height reported once
Once(hits) ==
    IF hits = <<>> THEN <<>>
    ELSE LET rest == Once(Tail(hits)) IN
        IF \E k \in 1..Len(rest) : rest[k] = Head(hits) THEN rest
        ELSE <<Head(hits)>> \o rest

\* layer i is farther than 1e-4 mm from every height in ds
AwayFrom(i, ds) ==
    \A d \in ds : LayerZ(i) - d > Epsilon \/ d - LayerZ(i) > Epsilon

\* C12: on a mesh given by its triangles, in every finished column whose
\* ray reported some crossing more than once (it passes through an edge that
\* two triangles share), each duplicated height z makes a span [z, z], and
\* at every layer farther than 1e-4 mm from the duplicated heights the slab
\* test gives what it would give had every crossing been reported once.
C12_DuplicatesTolerated ==
    mesh \in PrismMeshes =>
        \A p \in Pixels :
            (pc \notin {"idle", "load"} /\ col_pc[p] = "done"
                /\ Duplicated(mesh.hits[p]) # {}) =>
                /\ \A d \in Duplicated(mesh.hits[p]) :
                      \E k \in 1..Len(CellOf(p)) :
                          CellOf(p)[k] = [enter |-> d, exit |-> d]
                /\ \A i \in Layers :
                      AwayFrom(i, Duplicated(mesh.hits[p])) =>
                          (Inside(LayerZ(i), CellOf(p))
                              <=> Inside(LayerZ(i), PixelSpans(Once(mesh.hits[p]))))

\* ------------------------------------------------------------------------
\* C13: the run in the GUI
\* ------------------------------------------------------------------------

\* while is_processing, progress_rx is Some
ProcessingHasReceiver == is_processing => progress_rx

\* the GUI is back to is_processing = false with progress_rx = None
GuiIdle == ~is_processing /\ ~progress_rx

\* C13: once Slice is accepted in the GUI (is_processing true), the GUI
\* eventually returns to is_processing = false with progress_rx = None,
\* whatever becomes of the worker thread, and as long as is_processing is
\* true progress_rx is Some.
C13_GuiLifecycle ==
    /\ [](env.consumer = "gui" => ProcessingHasReceiver)
    /\ (env.consumer = "gui" /\ is_processing) ~> GuiIdle

\* the same for the runs in which no .expect() fails
GuiReturnsWhenWorkerFinishes ==
    /\ [](env.consumer = "gui" => ProcessingHasReceiver)
    /\ (env.consumer = "gui" /\ is_processing /\ env.io = "ok") ~> GuiIdle

\* the worker thread died in a failed .expect() while the GUI is processing
GuiWorkerPanicked ==
    /\ env.consumer = "gui"
    /\ is_processing
    /\ pc = "panicked"
    /\ chan = <<>>

====
